---- MODULE Spec2Model ----
(***************************************************************************)
(* The download-and-record service of ronny746/music-audio.               *)
(*                                                                         *)
(* The repository holds five revisions of the same express server.  The   *)
(* variable "variant" fixes which revision is running:                    *)
(*   "app"    src/app.js                         (yt-dlp through exec)     *)
(*   "p000"   src/unnamed/part_000               (play-dl, with fallback)  *)
(*   "p001"   src/unnamed/part_001               (ytdl-core)               *)
(*   "h5208"  src/.history/app_20250824145208.js (play-dl, first version)  *)
(*   "h5517"  src/.history/app_20250824145517.js (play-dl, guarded sends)  *)
(* Every handler is cut at its awaits and event callbacks: one action per  *)
(* synchronous segment.  The external downloader, the filesystem and the   *)
(* record store are the environment; their outcomes are inputs.            *)
(***************************************************************************)
EXTENDS Integers, Sequences, FiniteSets, TLC

VARIABLES variant, clock, alive, store, files, h, resp, invoked

vars == <<variant, clock, alive, store, files, h, resp, invoked>>

\* ------------------------------------------------------------------ bounds
NumReqs == 2
MaxClock == 1
\* records the store holds when the server starts
NumOld == 2

Reqs == 1..NumReqs

\* ------------------------------------------------------------------ inputs
Variants == {"app", "p000", "p001", "h5208", "h5517"}

\* "" stands for a missing or empty field of the request body (both falsy).
NoUrl == ""
Urls == {NoUrl, "bad", "u1", "u2"}
\* src/app.js and part_000 never look into the url (a malformed one is one the
\* downloader fails on), and src/app.js asks for no metadata.
AppUrls == {NoUrl, "u1", "u2"}
P000Urls == {NoUrl, "u1", "u2"}
NoType == ""
Types == {NoType, "audio", "video", "other"}

\* Titles are sequences of one-character chunks; Undefined is a title the
\* metadata does not carry.  The metadata belongs to the video: "u1" is a
\* video titled "s!", "u2" one whose details carry no title.
Undefined == <<"undefined">>
TitleOf(url) == IF url = "u1" THEN <<"s", "!">> ELSE Undefined

\* The bytes of the media behind a url: what a complete download leaves in the
\* destination file.  A file just created, or left by a failed download, has 0.
SizeOf(url) == IF url = "u1" THEN 1 ELSE 2

\* -------------------------------------------------------- program constants
FileTypeEnum == {"audio", "video"}

DOWNLOAD_DIR == "downloads"

\* ------------------------------------------------------------ pure helpers
\* A slip in the extension: every download is named .mp4.
FileExtAlwaysMp4(type) == "mp4"

\* type === 'audio' ? 'mp3' : 'mp4'
FileExt(type) == IF type = "audio" THEN "mp3" ELSE "mp4"

\* `video_${Date.now()}.${ext}`
AppFileName(now, type) == [base |-> <<"video">>, tok |-> now, ext |-> FileExt(type)]

\* path.join(DOWNLOAD_DIR, filename)
FilePath(fileName) == [dir |-> DOWNLOAD_DIR, name |-> fileName]

\* \w, \s and '-' of the class [^\w\s-]
WordChars == {"s", "_", "-", " "}

RECURSIVE TrimLeft(_)
TrimLeft(s) == IF s # <<>> /\ Head(s) = " " THEN TrimLeft(Tail(s)) ELSE s

RECURSIVE TrimRight(_)
TrimRight(s) ==
  IF s # <<>> /\ s[Len(s)] = " " THEN TrimRight(SubSeq(s, 1, Len(s) - 1)) ELSE s

\* rawTitle.replace(/[^\w\s-]/g, '').trim()
Sanitize(t) == TrimRight(TrimLeft(SelectSeq(t, LAMBDA c : c \in WordChars)))

\* x || 'video'
OrVideo(t) == IF t = Undefined \/ t = <<>> THEN <<"video">> ELSE t

\* `${title}_${Date.now()}.${fileExt}`
StreamFileName(title, now, type) == [base |-> title, tok |-> now, ext |-> FileExt(type)]

NoFile == [base |-> <<>>, tok |-> -1, ext |-> ""]

\* new Download({...}): downloadDate defaults to Date.now at construction; the
\* store assigns the id.
NewDownload(id, title, url, fileName, type, size, now) ==
  [id |-> id, title |-> title, url |-> url, fileName |-> fileName,
   fileType |-> type, downloadDate |-> now, filePath |-> FilePath(fileName),
   fileSize |-> size]

\* The characters of a file name, as chunks.
FileNameText(fileName) ==
  fileName.base \o <<"_", ToString(fileName.tok), ".", fileName.ext>>

\* src/app.js has no metadata: the title is the file name.
AppDownload(id, url, fileName, type, size, now) ==
  NewDownload(id, FileNameText(fileName), url, fileName, type, size, now)

NoDoc == NewDownload(0, <<>>, NoUrl, NoFile, NoType, 0, -1)

\* schema validation of save(): the fileType enum (which lets an absent value
\* pass) in every revision, the required fields in the stream revisions.
Validates(doc) ==
  /\ doc.fileType \in FileTypeEnum \/ doc.fileType = NoType
  /\ variant # "app" =>
       /\ doc.fileType # NoType
       /\ doc.url # NoUrl
       /\ doc.title # Undefined /\ doc.title # <<>>

\* .select('-filePath')
SelectNoPath(doc) == [f \in DOMAIN doc \ {"filePath"} |-> doc[f]]

\* A slip in the query: no sort, the store's own order.
SortDescInsertionOrder(s) == s

\* .sort({ downloadDate: -1 }): stable insertion into a descending sequence.
RECURSIVE InsertDesc(_, _)
InsertDesc(d, s) ==
  IF s = <<>> THEN <<d>>
  ELSE IF Head(s).downloadDate >= d.downloadDate
       THEN <<Head(s)>> \o InsertDesc(d, Tail(s))
       ELSE <<d>> \o s

RECURSIVE SortDesc(_)
SortDesc(s) ==
  IF s = <<>> THEN <<>> ELSE InsertDesc(s[Len(s)], SortDesc(SubSeq(s, 1, Len(s) - 1)))

\* the projection applied to every document of a query result
SelectAllNoPath(s) == [i \in DOMAIN s |-> SelectNoPath(s[i])]

\* Download.findById(id)
FindById(id) == SelectSeq(store, LAMBDA d : d.id = id)

\* ---------------------------------------------------------------- responses
NoResp == [status |-> 0, error |-> "", body |-> <<>>]

Err(status, msg) == [status |-> status, error |-> msg, body |-> <<>>]

Ok(body) == [status |-> 200, error |-> "", body |-> body]

Answered(r) == resp[r].status # 0

\* ----------------------------------------------------------- handler state
\* The locals a handler's closures keep, and where the handler stands.
\* Four fields are kept for the claims only: "cause" is the failure that ended
\* the request, "dl" what the downloader reported ("ok" or "failed"),
\* "statted" whether fs.statSync found the destination file and "sends" the
\* number of times a response was sent on the request's res.
NewCtx ==
  [pc |-> "idle", op |-> "", url |-> NoUrl, type |-> NoType, rawTitle |-> Undefined,
   fileName |-> NoFile, doc |-> NoDoc, id |-> 0, cause |-> "", dl |-> "",
   statted |-> FALSE, sends |-> 0]

Init ==
  /\ variant \in Variants
  /\ clock = 0
  /\ alive = TRUE
  /\ store = <<>>
  /\ files = [p \in {} |-> 0]
  /\ h = [r \in Reqs |-> NewCtx]
  /\ resp = [r \in Reqs |-> NoResp]
  /\ invoked = [r \in Reqs |-> 0]

\* A request arrives on a running server; requests are numbered in arrival order.
Arrives(r) ==
  /\ alive
  /\ h[r].pc = "idle"
  /\ \A q \in Reqs : q < r => h[q].pc # "idle"

At(r, pc) == alive /\ h[r].pc = pc

\* Date.now(): the clock never runs backwards; "now" is what this reading returns.
Now(now) == now \in {clock, clock + 1} /\ now <= MaxClock /\ clock' = now

\* The handler is over: its closure's locals are gone.  What the request asked
\* for (the route, the body, the id of the path) and how it ended are kept, for
\* the claims.
Over(ctx, pc, why) ==
  [NewCtx EXCEPT !.pc = pc, !.op = ctx.op, !.url = ctx.url, !.type = ctx.type,
                 !.id = ctx.id, !.fileName = ctx.fileName, !.dl = ctx.dl,
                 !.statted = ctx.statted, !.sends = ctx.sends,
                 !.cause = why]

\* res.status(s).json(...) ending the request.
Reply(r, ctx, answer, why) ==
  /\ resp' = [resp EXCEPT ![r] = answer]
  /\ h' = [h EXCEPT ![r] = Over([ctx EXCEPT !.sends = @ + 1], "done", why)]

\* ------------------------------------------------------ the download directory
\* files maps the paths present in the directory to the sizes of the files.
\* fs.existsSync(path); fs.statSync(path) succeeds exactly then.
Exists(path) == path \in DOMAIN files

\* The file at the path of fileName is (over)written and now holds size bytes.
WriteFile(fileName, size) ==
  files' = [p \in DOMAIN files \cup {FilePath(fileName)} |->
              IF p = FilePath(fileName) THEN size ELSE files[p]]

\* The directory after fs.unlinkSync(path).
Without(path) == [p \in DOMAIN files \ {path} |-> files[p]]

\* ======================================================== src/app.js (yt-dlp)
\* A slip in the validation: only the url is tested.
PostDownloadAppUnchecked(r, url, type, now) ==
  /\ variant = "app"
  /\ Arrives(r)
  /\ LET ctx == [h[r] EXCEPT !.op = "post", !.url = url, !.type = type] IN
     IF url = NoUrl
     THEN /\ Reply(r, ctx, Err(400, "url and type required"), "invalid")
          /\ UNCHANGED <<invoked, clock>>
     ELSE /\ Now(now)
          /\ h' = [h EXCEPT ![r] = [ctx EXCEPT !.pc = "exec",
                                               !.fileName = AppFileName(now, type)]]
          /\ invoked' = [invoked EXCEPT ![r] = @ + 1]
          /\ UNCHANGED resp
  /\ UNCHANGED <<variant, alive, store, files>>

\* app.post('/download'), up to exec(cmd, callback).
PostDownloadApp(r, url, type, now) ==
  /\ variant = "app"
  /\ Arrives(r)
  /\ LET ctx == [h[r] EXCEPT !.op = "post", !.url = url, !.type = type] IN
     IF url = NoUrl \/ type = NoType
     THEN /\ Reply(r, ctx, Err(400, "url and type required"), "invalid")
          /\ UNCHANGED <<invoked, clock>>
     ELSE /\ Now(now)
          /\ h' = [h EXCEPT ![r] = [ctx EXCEPT !.pc = "exec",
                                               !.fileName = AppFileName(now, type)]]
          /\ invoked' = [invoked EXCEPT ![r] = @ + 1]
          /\ UNCHANGED resp
  /\ UNCHANGED <<variant, alive, store, files>>

\* A slip in the callback: the error argument is not looked at.
ExecCallbackIgnoringError(r, ok, wrote, now) ==
  /\ At(r, "exec")
  /\ IF wrote
     THEN WriteFile(h[r].fileName, IF ok THEN SizeOf(h[r].url) ELSE 0)
     ELSE UNCHANGED files
  /\ LET ctx == [h[r] EXCEPT !.dl = IF ok THEN "ok" ELSE "failed"] IN
     IF FilePath(h[r].fileName) \notin DOMAIN files'
     THEN /\ Reply(r, ctx, Err(500, "File saved but DB insert failed"), "missingfile")
          /\ UNCHANGED clock
     ELSE /\ Now(now)
          /\ h' = [h EXCEPT ![r] = [ctx EXCEPT !.pc = "saving", !.statted = TRUE,
              !.doc = AppDownload(r, h[r].url, h[r].fileName, h[r].type,
                                  files'[FilePath(h[r].fileName)], now)]]
          /\ UNCHANGED resp
  /\ UNCHANGED <<variant, alive, store, invoked>>

\* yt-dlp ends (it exits zero or not, and has or has not left a file at the
\* destination path: a partial file when it failed), and the exec callback runs
\* up to `await newDownload.save()`.
ExecCallback(r, ok, wrote, now) ==
  /\ At(r, "exec")
  /\ IF wrote
     THEN WriteFile(h[r].fileName, IF ok THEN SizeOf(h[r].url) ELSE 0)
     ELSE UNCHANGED files
  /\ LET ctx == [h[r] EXCEPT !.dl = IF ok THEN "ok" ELSE "failed"] IN
     IF ~ok
     THEN /\ Reply(r, ctx, Err(500, "Download failed"), "downloader")
          /\ UNCHANGED clock
     ELSE IF FilePath(h[r].fileName) \notin DOMAIN files'
     THEN \* fs.statSync throws, caught by the catch around the save
          /\ Reply(r, ctx, Err(500, "File saved but DB insert failed"), "missingfile")
          /\ UNCHANGED clock
     ELSE /\ Now(now)
          /\ h' = [h EXCEPT ![r] = [ctx EXCEPT !.pc = "saving", !.statted = TRUE,
              !.doc = AppDownload(r, h[r].url, h[r].fileName, h[r].type,
                                  files'[FilePath(h[r].fileName)], now)]]
          /\ UNCHANGED resp
  /\ UNCHANGED <<variant, alive, store, invoked>>

\* save() settles (validation, then the insert, which the store accepts or
\* not) and the handler goes on: res.json(...) or the catch.
SaveApp(r, dbOk) ==
  /\ variant = "app"
  /\ At(r, "saving")
  /\ IF Validates(h[r].doc) /\ dbOk
     THEN /\ store' = Append(store, h[r].doc)
          /\ Reply(r, h[r], Ok(<<[message |-> h[r].type, link |-> h[r].fileName]>>), "")
     ELSE /\ Reply(r, h[r], Err(500, "File saved but DB insert failed"), "persist")
          /\ UNCHANGED store
  /\ UNCHANGED <<variant, clock, alive, files, invoked>>

\* Download.find({}).sort({ downloadDate: -1 }) with no projection
ListApp == SortDesc(store)

\* app.get('/downloads-list')
DownloadsListApp(r, dbOk) ==
  /\ variant = "app"
  /\ Arrives(r)
  /\ LET ctx == [h[r] EXCEPT !.op = "list"] IN
     IF dbOk
     THEN Reply(r, ctx, Ok(ListApp), "")
     ELSE Reply(r, ctx, Err(500, "Database error"), "store")
  /\ UNCHANGED <<variant, clock, alive, store, files, invoked>>

\* ================================================== the stream revisions
\* ytdl.validateURL(url) / play.yt_validate(url) on a string
ValidUrl(url) == url \in {"u1", "u2"}

\* What becomes of an exception nothing catches inside an async express
\* handler; the express release and the runtime's unhandled-rejection mode
\* decide.  "forwarded": the router hands the rejection to the error handler
\* (express 5), which answers 500 with its own page, not a JSON error.  "hung": the rejection is only reported and
\* the request is never answered.  "crashed": the rejection ends the process.
Fates == {"forwarded", "hung", "crashed"}

Rejected(r, ctx, why, fate) ==
  IF fate = "forwarded"
  THEN Reply(r, ctx, Err(500, ""), why) /\ UNCHANGED alive
  ELSE /\ h' = [h EXCEPT ![r] = Over(ctx, "hung", why)]
       /\ alive' = (fate = "hung")
       /\ UNCHANGED resp

\* A failure the handler's try/catch takes (every revision but part_000's
\* store routes, which have none).
Caught(r, ctx, answer, why, fate) ==
  IF variant = "p000"
  THEN Rejected(r, ctx, why, fate)
  ELSE Reply(r, ctx, answer, why) /\ UNCHANGED alive

\* app.post('/download') of part_000, up to `await play.video_info(url)`.
PostDownloadP000(r, url, type) ==
  /\ variant = "p000"
  /\ Arrives(r)
  /\ LET ctx == [h[r] EXCEPT !.op = "post", !.url = url, !.type = type] IN
     IF url = NoUrl \/ type = NoType
     THEN Reply(r, ctx, Err(400, "Missing url or type"), "invalid")
     ELSE h' = [h EXCEPT ![r] = [ctx EXCEPT !.pc = "info"]] /\ UNCHANGED resp
  /\ UNCHANGED <<variant, clock, alive, store, files, invoked>>

\* app.post('/download') of part_001, up to `await ytdl.getInfo(url)`.
PostDownloadP001(r, url, type) ==
  /\ variant = "p001"
  /\ Arrives(r)
  /\ LET ctx == [h[r] EXCEPT !.op = "post", !.url = url, !.type = type] IN
     IF ~ValidUrl(url)
     THEN Reply(r, ctx, Err(400, "Invalid YouTube URL"), "invalid")
     ELSE h' = [h EXCEPT ![r] = [ctx EXCEPT !.pc = "info"]] /\ UNCHANGED resp
  /\ UNCHANGED <<variant, clock, alive, store, files, invoked>>

\* app.post('/download') of app_20250824145208, up to `await play.video_info(url)`.
\* play.yt_validate is handed req.body.url as it is: on an absent url it throws
\* (thrown), on an empty one it answers false.
PostDownloadH5208(r, url, type, thrown) ==
  /\ variant = "h5208"
  /\ Arrives(r)
  /\ thrown => url = NoUrl
  /\ LET ctx == [h[r] EXCEPT !.op = "post", !.url = url, !.type = type] IN
     IF thrown
     THEN Reply(r, ctx, Err(500, "Server error"), "invalid")
     ELSE IF ~ValidUrl(url)
     THEN Reply(r, ctx, Err(400, "Invalid YouTube URL"), "invalid")
     ELSE h' = [h EXCEPT ![r] = [ctx EXCEPT !.pc = "info"]] /\ UNCHANGED resp
  /\ UNCHANGED <<variant, clock, alive, store, files, invoked>>

\* app.post('/download') of app_20250824145517, up to `await play.video_info(url)`.
PostDownloadH5517(r, url, type) ==
  /\ variant = "h5517"
  /\ Arrives(r)
  /\ LET ctx == [h[r] EXCEPT !.op = "post", !.url = url, !.type = type] IN
     IF url = NoUrl \/ type = NoType
     THEN Reply(r, ctx, Err(400, "Missing url or type"), "invalid")
     ELSE IF ~ValidUrl(url)
     THEN Reply(r, ctx, Err(400, "Invalid YouTube URL"), "invalid")
     ELSE h' = [h EXCEPT ![r] = [ctx EXCEPT !.pc = "info"]] /\ UNCHANGED resp
  /\ UNCHANGED <<variant, clock, alive, store, files, invoked>>

\* The error texts that differ between the revisions.
SaveFailedText ==
  IF variant = "p001" THEN "Download completed but database save failed"
  ELSE "Download complete but DB save failed"

StreamErrorText == IF variant = "p001" THEN "Download failed" ELSE "Stream error"

\* fs.createWriteStream(filePath): the destination file exists, empty, from
\* here on.
CreateWriteStream(fileName) == WriteFile(fileName, 0)

\* if (fs.existsSync(filePath)) fs.unlinkSync(filePath)
Unlink(fileName) == files' = Without(FilePath(fileName))

\* part_000: video_info settles; the handler derives the file name and awaits
\* play.stream.
VideoInfoP000(r, ok, now) ==
  /\ variant = "p000"
  /\ At(r, "info")
  /\ IF ~ok
     THEN /\ Reply(r, h[r], Err(400, "Unable to fetch video info. Check URL."), "info")
          /\ UNCHANGED <<invoked, clock>>
     ELSE /\ Now(now)
          /\ LET rawTitle == OrVideo(TitleOf(h[r].url))
                 safe == OrVideo(Sanitize(rawTitle))
             IN h' = [h EXCEPT ![r] = [@ EXCEPT !.pc = "stream", !.rawTitle = rawTitle,
                        !.fileName = StreamFileName(safe, now, h[r].type)]]
          /\ invoked' = [invoked EXCEPT ![r] = @ + 1]
          /\ UNCHANGED resp
  /\ UNCHANGED <<variant, alive, store, files>>

\* part_001: getInfo settles; the handler derives the file name, starts ytdl
\* and pipes it into the write stream.
GetInfoP001(r, ok, now) ==
  /\ variant = "p001"
  /\ At(r, "info")
  /\ IF ~ok \/ TitleOf(h[r].url) = Undefined
     THEN \* getInfo rejects, or undefined.replace throws: the outer catch
          /\ Reply(r, h[r], Err(500, "Server error"), IF ok THEN "metadata" ELSE "info")
          /\ UNCHANGED <<invoked, clock, files>>
     ELSE /\ Now(now)
          /\ LET title == TitleOf(h[r].url)
                 fileName == StreamFileName(Sanitize(title), now, h[r].type)
             IN /\ h' = [h EXCEPT ![r] = [@ EXCEPT !.pc = "piping", !.rawTitle = title,
                                                  !.fileName = fileName]]
                /\ CreateWriteStream(fileName)
          /\ invoked' = [invoked EXCEPT ![r] = @ + 1]
          /\ UNCHANGED resp
  /\ UNCHANGED <<variant, alive, store>>

\* app_20250824145208: video_info settles; file name, then `await play.stream`.
VideoInfoH5208(r, ok, now) ==
  /\ variant = "h5208"
  /\ At(r, "info")
  /\ IF ~ok \/ TitleOf(h[r].url) = Undefined
     THEN \* video_info rejects, or undefined.replace throws: the outer catch
          /\ Reply(r, h[r], Err(500, "Server error"), IF ok THEN "metadata" ELSE "info")
          /\ UNCHANGED <<invoked, clock>>
     ELSE /\ Now(now)
          /\ h' = [h EXCEPT ![r] = [@ EXCEPT !.pc = "stream", !.rawTitle = TitleOf(h[r].url),
                     !.fileName = StreamFileName(Sanitize(TitleOf(h[r].url)), now, h[r].type)]]
          /\ invoked' = [invoked EXCEPT ![r] = @ + 1]
          /\ UNCHANGED resp
  /\ UNCHANGED <<variant, alive, store, files>>

\* app_20250824145517: video_info settles; file name, then `await play.stream`.
VideoInfoH5517(r, ok, now) ==
  /\ variant = "h5517"
  /\ At(r, "info")
  /\ IF ~ok
     THEN /\ Reply(r, h[r], Err(500, "Server error"), "info")
          /\ UNCHANGED <<invoked, clock>>
     ELSE /\ Now(now)
          /\ LET rawTitle == OrVideo(TitleOf(h[r].url))
                 safe == OrVideo(Sanitize(rawTitle))
             IN h' = [h EXCEPT ![r] = [@ EXCEPT !.pc = "stream", !.rawTitle = rawTitle,
                        !.fileName = StreamFileName(safe, now, h[r].type)]]
          /\ invoked' = [invoked EXCEPT ![r] = @ + 1]
          /\ UNCHANGED resp
  /\ UNCHANGED <<variant, alive, store, files>>

\* play.stream settles.  On success the write stream is created and piped
\* into.  On failure part_000 falls back to play.stream_from_info; the
\* history revisions let the outer catch answer.
PlayStream(r, ok) ==
  /\ At(r, "stream")
  /\ IF ok
     THEN /\ CreateWriteStream(h[r].fileName)
          /\ h' = [h EXCEPT ![r].pc = "piping"]
          /\ UNCHANGED <<resp, invoked>>
     ELSE IF variant = "p000"
     THEN /\ h' = [h EXCEPT ![r].pc = "fromInfo"]
          /\ invoked' = [invoked EXCEPT ![r] = @ + 1]
          /\ UNCHANGED <<resp, files>>
     ELSE /\ Reply(r, [h[r] EXCEPT !.dl = "failed"], Err(500, "Server error"), "downloader")
          /\ UNCHANGED <<files, invoked>>
  /\ UNCHANGED <<variant, clock, alive, store>>

\* part_000: play.stream_from_info settles.
StreamFromInfo(r, ok) ==
  /\ At(r, "fromInfo")
  /\ IF ok
     THEN /\ CreateWriteStream(h[r].fileName)
          /\ h' = [h EXCEPT ![r].pc = "piping"]
          /\ UNCHANGED resp
     ELSE /\ Reply(r, [h[r] EXCEPT !.dl = "failed"],
                   Err(500, "Failed to get media stream"), "downloader")
          /\ UNCHANGED files
  /\ UNCHANGED <<variant, clock, alive, store, invoked>>

\* writeStream 'finish': everything the source sent is in the file; stat it,
\* build the document, `await save()`.
WriteFinish(r, now) ==
  /\ At(r, "piping")
  /\ LET ctx == [h[r] EXCEPT !.dl = "ok"] IN
     IF ~Exists(FilePath(h[r].fileName))
     THEN \* fs.statSync throws into the catch around the save
          /\ Reply(r, ctx, Err(500, SaveFailedText), "missingfile")
          /\ UNCHANGED <<clock, files>>
     ELSE /\ Now(now)
          /\ WriteFile(h[r].fileName, SizeOf(h[r].url))
          /\ h' = [h EXCEPT ![r] = [ctx EXCEPT !.pc = "saving", !.statted = TRUE,
               !.doc = NewDownload(r, h[r].rawTitle, h[r].url, h[r].fileName, h[r].type,
                                   files'[FilePath(h[r].fileName)], now)]]
          /\ UNCHANGED resp
  /\ UNCHANGED <<variant, alive, store, invoked>>

\* writeStream 'error': the partial file is removed and the request answered.
WriteError(r) ==
  /\ At(r, "piping")
  /\ Unlink(h[r].fileName)
  /\ Reply(r, [h[r] EXCEPT !.dl = "failed"], Err(500, "File write failed"), "write")
  /\ UNCHANGED <<variant, clock, alive, store, invoked>>

\* The source stream emits 'error'.  part_001 and app_20250824145517 listen:
\* the partial file is removed and the request answered.  part_000 and
\* app_20250824145208 attach no listener: the event is an uncaught exception.
StreamError(r) ==
  /\ At(r, "piping")
  /\ IF variant \in {"p001", "h5517"}
     THEN /\ Unlink(h[r].fileName)
          /\ Reply(r, [h[r] EXCEPT !.dl = "failed"], Err(500, StreamErrorText), "stream")
          /\ UNCHANGED alive
     ELSE /\ alive' = FALSE
          /\ UNCHANGED <<h, resp, files>>
  /\ UNCHANGED <<variant, clock, store, invoked>>

\* The request was answered by one of the two 'error' listeners and the other
\* stream is still open.
AnsweredBy(r, why) == alive /\ h[r].pc = "done" /\ h[r].op = "post" /\ h[r].cause = why

\* res.status(500).json(...) on a request already answered: the send throws
\* (ERR_HTTP_HEADERS_SENT) inside the listener, an uncaught exception.
SendAgain(r) ==
  /\ h' = [h EXCEPT ![r].sends = @ + 1]
  /\ alive' = FALSE

\* The source stream emits 'error' after the write stream's 'error' listener
\* answered.  part_000 and app_20250824145208 have no listener: an uncaught
\* exception.  part_001's listener removes the file and sends a second
\* answer.  app_20250824145517's removes the file and tests res.headersSent.
LateStreamError(r) ==
  /\ variant # "app"
  /\ AnsweredBy(r, "write")
  /\ IF variant = "h5517"
     THEN Unlink(h[r].fileName) /\ UNCHANGED <<alive, h>>
     ELSE IF variant = "p001"
     THEN Unlink(h[r].fileName) /\ SendAgain(r)
     ELSE alive' = FALSE /\ UNCHANGED <<files, h>>
  /\ UNCHANGED <<variant, clock, store, resp, invoked>>

\* The write stream emits 'error' after the source stream's 'error' listener
\* answered: part_001's listener removes the file and sends a second answer;
\* app_20250824145517's removes the file and tests res.headersSent.
LateWriteError(r) ==
  /\ variant \in {"p001", "h5517"}
  /\ AnsweredBy(r, "stream")
  /\ Unlink(h[r].fileName)
  /\ IF variant = "p001" THEN SendAgain(r) ELSE UNCHANGED <<alive, h>>
  /\ UNCHANGED <<variant, clock, store, resp, invoked>>

\* A slip in the 'finish' handler: the success answer is sent without waiting
\* for save().
SaveStreamAnsweringFirst(r, dbOk) ==
  /\ variant # "app"
  /\ At(r, "saving")
  /\ Reply(r, h[r], Ok(<<[success |-> TRUE, message |-> h[r].type,
                          fileName |-> h[r].fileName, title |-> h[r].rawTitle]>>), "")
  /\ store' = IF Validates(h[r].doc) /\ dbOk THEN Append(store, h[r].doc) ELSE store
  /\ UNCHANGED <<variant, clock, alive, files, invoked>>

\* save() settles and the 'finish' handler goes on: res.json(...) or its
\* catch, which in app_20250824145517 also removes the file.
SaveStream(r, dbOk) ==
  /\ variant # "app"
  /\ At(r, "saving")
  /\ IF Validates(h[r].doc) /\ dbOk
     THEN /\ store' = Append(store, h[r].doc)
          /\ Reply(r, h[r], Ok(<<[success |-> TRUE, message |-> h[r].type,
                                  fileName |-> h[r].fileName, title |-> h[r].rawTitle]>>), "")
          /\ UNCHANGED files
     ELSE /\ Reply(r, h[r], Err(500, SaveFailedText), "persist")
          /\ IF variant = "h5517" THEN Unlink(h[r].fileName) ELSE UNCHANGED files
          /\ UNCHANGED store
  /\ UNCHANGED <<variant, clock, alive, invoked>>

\* app.get('/downloads')
DownloadsList(r, dbOk, fate) ==
  /\ variant # "app"
  /\ Arrives(r)
  /\ LET ctx == [h[r] EXCEPT !.op = "list"] IN
     IF dbOk
     THEN Reply(r, ctx, Ok(SelectAllNoPath(SortDesc(store))), "") /\ UNCHANGED alive
     ELSE Caught(r, ctx, Err(500, "Database error"), "store", fate)
  /\ UNCHANGED <<variant, clock, store, files, invoked>>

\* A slip in the lookup: no test of the result, res.json(null) when no record
\* has the id.
GetDownloadUnguarded(r, id, dbOk, fate) ==
  /\ variant # "app"
  /\ Arrives(r)
  /\ LET ctx == [h[r] EXCEPT !.op = "get", !.id = id] IN
     IF ~dbOk
     THEN Caught(r, ctx, Err(500, "Database error"), "store", fate)
     ELSE Reply(r, ctx, Ok(FindById(id)), "") /\ UNCHANGED alive
  /\ UNCHANGED <<variant, clock, store, files, invoked>>

\* app.get('/download/:id')
GetDownload(r, id, dbOk, fate) ==
  /\ variant # "app"
  /\ Arrives(r)
  /\ LET ctx == [h[r] EXCEPT !.op = "get", !.id = id] IN
     IF ~dbOk
     THEN Caught(r, ctx, Err(500, "Database error"), "store", fate)
     ELSE IF FindById(id) = <<>>
     THEN Reply(r, ctx, Err(404, "Download not found"), "notfound") /\ UNCHANGED alive
     ELSE Reply(r, ctx, Ok(<<FindById(id)[1]>>), "") /\ UNCHANGED alive
  /\ UNCHANGED <<variant, clock, store, files, invoked>>

\* app.delete('/download/:id'), up to `await Download.findByIdAndDelete(id)`.
DeleteDownload(r, id, dbOk, unlinkOk, fate) ==
  /\ variant # "app"
  /\ Arrives(r)
  /\ LET ctx == [h[r] EXCEPT !.op = "delete", !.id = id]
         found == FindById(id)
     IN
     IF ~dbOk
     THEN Caught(r, ctx, Err(500, "Delete failed"), "store", fate) /\ UNCHANGED files
     ELSE IF found = <<>>
     THEN /\ Reply(r, ctx, Err(404, "Download not found"), "notfound")
          /\ UNCHANGED <<alive, files>>
     ELSE IF Exists(found[1].filePath) /\ ~unlinkOk
     THEN \* fs.unlinkSync throws
          Caught(r, ctx, Err(500, "Delete failed"), "unlink", fate) /\ UNCHANGED files
     ELSE /\ files' = Without(found[1].filePath)
          /\ h' = [h EXCEPT ![r] = [ctx EXCEPT !.pc = "deleting"]]
          /\ UNCHANGED <<resp, alive>>
  /\ UNCHANGED <<variant, clock, store, invoked>>

\* A slip in the delete: success is answered and the record is not removed.
DeleteSettlesKeepingRecord(r, dbOk, fate) ==
  /\ At(r, "deleting")
  /\ IF dbOk
     THEN /\ Reply(r, h[r], Ok(<<[success |-> TRUE]>>), "")
          /\ UNCHANGED alive
     ELSE Caught(r, h[r], Err(500, "Delete failed"), "remove", fate)
  /\ UNCHANGED <<variant, clock, store, files, invoked>>

\* findByIdAndDelete settles, and the handler answers.
DeleteSettles(r, dbOk, fate) ==
  /\ At(r, "deleting")
  /\ IF dbOk
     THEN /\ store' = SelectSeq(store, LAMBDA d : d.id # h[r].id)
          /\ Reply(r, h[r], Ok(<<[success |-> TRUE]>>), "")
          /\ UNCHANGED alive
     ELSE /\ Caught(r, h[r], Err(500, "Delete failed"), "remove", fate)
          /\ UNCHANGED store
  /\ UNCHANGED <<variant, clock, files, invoked>>

Times == 0..MaxClock

\* The handlers and callbacks of src/app.js.
NextApp ==
  \/ \E r \in Reqs, url \in AppUrls, type \in Types, now \in Times :
        PostDownloadApp(r, url, type, now)
  \/ \E r \in Reqs, ok \in BOOLEAN, wrote \in BOOLEAN, now \in Times :
        ExecCallback(r, ok, wrote, now)
  \/ \E r \in Reqs, dbOk \in BOOLEAN : SaveApp(r, dbOk)
  \/ \E r \in Reqs, dbOk \in BOOLEAN : DownloadsListApp(r, dbOk)

\* The handlers and callbacks of the stream revisions.
NextStream ==
  \/ \E r \in Reqs, url \in P000Urls, type \in Types : PostDownloadP000(r, url, type)
  \/ \E r \in Reqs, url \in Urls, type \in Types : PostDownloadP001(r, url, type)
  \/ \E r \in Reqs, url \in Urls, type \in Types, thrown \in BOOLEAN :
        PostDownloadH5208(r, url, type, thrown)
  \/ \E r \in Reqs, url \in Urls, type \in Types : PostDownloadH5517(r, url, type)
  \/ \E r \in Reqs, ok \in BOOLEAN, now \in Times : VideoInfoP000(r, ok, now)
  \/ \E r \in Reqs, ok \in BOOLEAN, now \in Times : GetInfoP001(r, ok, now)
  \/ \E r \in Reqs, ok \in BOOLEAN, now \in Times : VideoInfoH5208(r, ok, now)
  \/ \E r \in Reqs, ok \in BOOLEAN, now \in Times : VideoInfoH5517(r, ok, now)
  \/ \E r \in Reqs, ok \in BOOLEAN : PlayStream(r, ok)
  \/ \E r \in Reqs, ok \in BOOLEAN : StreamFromInfo(r, ok)
  \/ \E r \in Reqs, now \in Times : WriteFinish(r, now)
  \/ \E r \in Reqs : WriteError(r)
  \/ \E r \in Reqs : StreamError(r)
  \/ \E r \in Reqs : LateStreamError(r)
  \/ \E r \in Reqs : LateWriteError(r)
  \/ \E r \in Reqs, dbOk \in BOOLEAN : SaveStream(r, dbOk)
  \/ \E r \in Reqs, dbOk \in BOOLEAN, fate \in Fates : DownloadsList(r, dbOk, fate)
  \/ \E r \in Reqs, id \in Reqs, dbOk \in BOOLEAN, fate \in Fates :
        GetDownload(r, id, dbOk, fate)
  \/ \E r \in Reqs, id \in Reqs, dbOk \in BOOLEAN, unlinkOk \in BOOLEAN, fate \in Fates :
        DeleteDownload(r, id, dbOk, unlinkOk, fate)
  \/ \E r \in Reqs, dbOk \in BOOLEAN, fate \in Fates : DeleteSettles(r, dbOk, fate)

Next == NextApp \/ NextStream

\* Any of the five revisions.
Spec == Init /\ [][Next]_vars

\* src/app.js alone.
InitApp == Init /\ variant = "app"

SpecApp == InitApp /\ [][NextApp]_vars

\* ------------------------------------------------- what the environment owes
\* The pending operation of request r settles, one way or the other: the
\* downloader completes or fails, the streams finish or emit 'error', the
\* store answers or rejects.
Settles(r) ==
  \/ \E ok \in BOOLEAN, wrote \in BOOLEAN, now \in Times : ExecCallback(r, ok, wrote, now)
  \/ \E dbOk \in BOOLEAN : SaveApp(r, dbOk)
  \/ \E ok \in BOOLEAN, now \in Times : VideoInfoP000(r, ok, now)
  \/ \E ok \in BOOLEAN, now \in Times : GetInfoP001(r, ok, now)
  \/ \E ok \in BOOLEAN, now \in Times : VideoInfoH5208(r, ok, now)
  \/ \E ok \in BOOLEAN, now \in Times : VideoInfoH5517(r, ok, now)
  \/ \E ok \in BOOLEAN : PlayStream(r, ok)
  \/ \E ok \in BOOLEAN : StreamFromInfo(r, ok)
  \/ \E now \in Times : WriteFinish(r, now)
  \/ WriteError(r)
  \/ StreamError(r)
  \/ \E dbOk \in BOOLEAN : SaveStream(r, dbOk)
  \/ \E dbOk \in BOOLEAN, fate \in Fates : DeleteSettles(r, dbOk, fate)

\* Every pending operation eventually settles.
Fairness == \A r \in Reqs : WF_vars(Settles(r))

\* Any of the five revisions, with an environment that does not stall.
SpecLive == Init /\ [][Next]_vars /\ Fairness

\* --------------------------------------------------- an environment that works
\* Submits and deletes with a downloader, a filesystem and a store that never
\* fail: every download completes and leaves its file, every store call is
\* accepted, every unlink works, no stream emits 'error'.
NextNoFailure ==
  \/ \E r \in Reqs, url \in AppUrls, type \in Types, now \in Times :
        PostDownloadApp(r, url, type, now)
  \/ \E r \in Reqs, now \in Times : ExecCallback(r, TRUE, TRUE, now)
  \/ \E r \in Reqs : SaveApp(r, TRUE)
  \/ \E r \in Reqs, url \in P000Urls, type \in Types : PostDownloadP000(r, url, type)
  \/ \E r \in Reqs, url \in Urls, type \in Types : PostDownloadP001(r, url, type)
  \/ \E r \in Reqs, url \in Urls, type \in Types, thrown \in BOOLEAN :
        PostDownloadH5208(r, url, type, thrown)
  \/ \E r \in Reqs, url \in Urls, type \in Types : PostDownloadH5517(r, url, type)
  \/ \E r \in Reqs, now \in Times : VideoInfoP000(r, TRUE, now)
  \/ \E r \in Reqs, now \in Times : GetInfoP001(r, TRUE, now)
  \/ \E r \in Reqs, now \in Times : VideoInfoH5208(r, TRUE, now)
  \/ \E r \in Reqs, now \in Times : VideoInfoH5517(r, TRUE, now)
  \/ \E r \in Reqs : PlayStream(r, TRUE)
  \/ \E r \in Reqs, now \in Times : WriteFinish(r, now)
  \/ \E r \in Reqs : SaveStream(r, TRUE)
  \/ \E r \in Reqs, id \in Reqs : DeleteDownload(r, id, TRUE, TRUE, "forwarded")
  \/ \E r \in Reqs : DeleteSettles(r, TRUE, "forwarded")

SpecNoFailure == Init /\ [][NextNoFailure]_vars

\* ------------------------------------------- a server started on a used store
\* The store and the download directory outlive the process (mongoose.connect
\* opens an existing database, the directory is only created when absent): a
\* server starts on the records of earlier downloads.  The store assigns
\* ids in insertion order; the earlier downloads were of "u1" as audio.
OldIds == {NumReqs + i : i \in 1..NumOld}

\* The store routes of part_001 and app_20250824145208 are those of
\* app_20250824145517 statement for statement.
StoreRevisions == {"app", "p000", "h5517"}

\* The record an earlier download left: its file name carries the time the
\* handler read, its downloadDate the time the document was built.
OldDownload(id, date) ==
  IF variant = "app"
  THEN AppDownload(id, "u1", AppFileName(date, "audio"), "audio", SizeOf("u1"), date)
  ELSE NewDownload(id, OrVideo(TitleOf("u1")), "u1",
                   StreamFileName(OrVideo(Sanitize(TitleOf("u1"))), date, "audio"),
                   "audio", SizeOf("u1"), date)

OldStores ==
  UNION {{[i \in 1..k |-> OldDownload(NumReqs + i, d[i])] : d \in [1..k -> Times]} :
           k \in 0..NumOld}

\* Every record was saved after its file was found on disk; a file may since
\* have been removed (a delete whose second half failed).
InitStore ==
  /\ variant \in StoreRevisions
  /\ clock = MaxClock
  /\ alive = TRUE
  /\ store \in OldStores
  /\ files \in {[p \in S |-> SizeOf("u1")] :
                  S \in SUBSET {store[i].filePath : i \in DOMAIN store}}
  /\ h = [r \in Reqs |-> NewCtx]
  /\ resp = [r \in Reqs |-> NoResp]
  /\ invoked = [r \in Reqs |-> 0]

\* The routes that read and delete records.
NextStore ==
  \/ \E r \in Reqs, dbOk \in BOOLEAN : DownloadsListApp(r, dbOk)
  \/ \E r \in Reqs, dbOk \in BOOLEAN, fate \in Fates : DownloadsList(r, dbOk, fate)
  \/ \E r \in Reqs, id \in OldIds, dbOk \in BOOLEAN, fate \in Fates :
        GetDownload(r, id, dbOk, fate)
  \/ \E r \in Reqs, id \in OldIds, dbOk \in BOOLEAN, unlinkOk \in BOOLEAN, fate \in Fates :
        DeleteDownload(r, id, dbOk, unlinkOk, fate)
  \/ \E r \in Reqs, dbOk \in BOOLEAN, fate \in Fates : DeleteSettles(r, dbOk, fate)

SpecStore == InitStore /\ [][NextStore]_vars

\* ====================================================================== claims
Posted(r) == h[r].op = "post"

Finished(r) == h[r].pc = "done"

Succeeded(r) == resp[r].status = 200

\* The records the store holds for request r (the store's id of a record is
\* the number of the request that saved it).
RecordsOf(r) == SelectSeq(store, LAMBDA d : d.id = r)

\* The request is between its validation and its answer.
InFlight(r) == h[r].pc \in {"exec", "info", "stream", "fromInfo", "piping", "saving"}

\* The revisions whose handler tests `!url || !type`.
ChecksUrlAndType == {"app", "p000", "h5517"}

MissingInput(r) == h[r].url = NoUrl \/ h[r].type = NoType

C2_UnknownKindRejected ==
  \A r \in Reqs :
    Posted(r) /\ h[r].url # NoUrl /\ h[r].type \notin FileTypeEnum \cup {NoType} =>
      /\ invoked[r] = 0
      /\ h[r].fileName = NoFile
      /\ Answered(r) => resp[r].status = 400

\* C3 (as stated): once a request whose download failed has been answered, no
\* destination file of it is left and no record of it is stored.
C3_FailedDownloadLeavesNothing ==
  \A r \in Reqs :
    Posted(r) /\ Finished(r) /\ h[r].dl = "failed" =>
      /\ ~Exists(FilePath(h[r].fileName))
      /\ RecordsOf(r) = <<>>

\* C4 (as stated): the answer to a download that reported success without a
\* file differs from the answer to a failed save and from the answer to a
\* failed download, and no record of it is stored.
C4_InconsistentResultDistinct ==
  \A r \in Reqs :
    Finished(r) /\ h[r].cause = "missingfile" =>
      /\ RecordsOf(r) = <<>>
      /\ resp[r].status >= 400
      /\ \A q \in Reqs :
           Finished(q) /\ h[q].cause \in {"persist", "downloader"} => resp[q] # resp[r]

\* A response body carries a record's filePath.
ExposesPath(answer) ==
  \E i \in DOMAIN answer.body : "filePath" \in DOMAIN answer.body[i]

\* C5 (as stated): no response carries a record's filePath.
C5_NoPathInResponses == \A r \in Reqs : ~ExposesPath(resp[r])

SuccessfulPosts == {r \in Reqs : Posted(r) /\ Succeeded(r)}

\* C6: every successful POST /download of src/app.js has added exactly one
\* record (the store holds one record per successful post and no other), the
\* record is in what the list endpoint returns, and its fileName ends in mp3
\* exactly when the type is audio and in mp4 exactly when it is video.
C6_SuccessAddsOneRecord ==
  /\ Len(store) = Cardinality(SuccessfulPosts)
  /\ \A r \in SuccessfulPosts :
       /\ Len(RecordsOf(r)) = 1
       /\ \E i \in DOMAIN ListApp : ListApp[i] = RecordsOf(r)[1]
       /\ h[r].type \in FileTypeEnum
       /\ RecordsOf(r)[1].fileType = h[r].type
       /\ RecordsOf(r)[1].fileName.ext = "mp3" <=> h[r].type = "audio"
       /\ RecordsOf(r)[1].fileName.ext = "mp4" <=> h[r].type = "video"

C6_Witness ==
  /\ \E r \in SuccessfulPosts : h[r].type = "audio"
  /\ \E r \in SuccessfulPosts : h[r].type = "video"

\* C7 (as stated): two requests in flight for the same url and type have
\* different file names.
C7_DistinctFileNames ==
  \A r, q \in Reqs :
    /\ r # q /\ InFlight(r) /\ InFlight(q)
    /\ h[r].fileName # NoFile /\ h[q].fileName # NoFile
    /\ h[r].url = h[q].url /\ h[r].type = h[q].type
    => h[r].fileName # h[q].fileName

\* C8 (as stated): the downloader is invoked at most once for a request, and
\* exactly once for a request that went past validation and the metadata.
C8_InvokedOnce ==
  \A r \in Reqs :
    /\ invoked[r] <= 1
    /\ h[r].fileName # NoFile => invoked[r] = 1

\* C9 (as stated): when the save fails after a download that succeeded, the
\* answer is not a 2xx, no record is stored and the file is still on disk.
C9_FailedSaveKeepsFile ==
  \A r \in Reqs :
    Finished(r) /\ h[r].cause = "persist" =>
      /\ resp[r].status >= 400
      /\ RecordsOf(r) = <<>>
      /\ Exists(FilePath(h[r].fileName))

\* C10: every record in the store belongs to a request whose downloader
\* reported success and whose destination file fs.statSync found; a request
\* whose download is still running or has failed has no record.
C10_RecordOnlyAfterDownload ==
  /\ \A i \in DOMAIN store :
       /\ store[i].id \in Reqs
       /\ h[store[i].id].dl = "ok"
       /\ h[store[i].id].statted
  /\ \A r \in Reqs :
       \/ h[r].pc \in {"exec", "info", "stream", "fromInfo", "piping"}
       \/ h[r].dl = "failed"
       \/ h[r].cause \in {"downloader", "stream", "write", "missingfile", "info", "metadata", "invalid"}
       => RecordsOf(r) = <<>>

C10_Witness ==
  \E r, q \in Reqs :
    /\ RecordsOf(r) # <<>>
    /\ h[q].dl = "failed" /\ Finished(q)

\* C11: a POST /download is not answered while its download is running, and
\* the step that sends its 2xx answer is the one in which save() has settled:
\* the downloader had reported success and the record is in the store when the
\* answer leaves.
C11_NoEarlyAcknowledgment ==
  /\ [](\A r \in Reqs : InFlight(r) => ~Answered(r))
  /\ [][\A r \in Reqs :
          ~Answered(r) /\ resp'[r].status = 200 /\ h'[r].op = "post" =>
            /\ h[r].pc = "saving"
            /\ h[r].dl = "ok"
            /\ \E i \in DOMAIN store' : store'[i] = h[r].doc /\ store'[i].id = r]_vars

C11_Witness ==
  \E r, q \in Reqs :
    /\ variant = "h5517"
    /\ Posted(r) /\ Succeeded(r) /\ RecordsOf(r) # <<>>
    /\ Posted(q) /\ h[q].pc = "piping" /\ ~Answered(q)

\* Request r is a DELETE /download/:id that was answered Success.
Deleted(r) == h[r].op = "delete" /\ Finished(r) /\ Succeeded(r)

\* This step is the arrival of a DELETE /download/:id as request r.
DeleteArrives(r) == h[r].pc = "idle" /\ h'[r].op = "delete"

\* C12: a DELETE of an existing record is answered Success (200) or with a
\* failure (500), never NotFound; and a DELETE of the same id that arrives
\* after a DELETE was answered Success changes neither the store nor the
\* download directory and, where the store can be read, is answered 404.
C12_SecondDeleteNotFound ==
  [][\A r \in Reqs :
       /\ DeleteArrives(r) /\ FindById(h'[r].id) # <<>> /\ Answered(r)' =>
            resp'[r].status = 500
       /\ h[r].pc = "deleting" /\ Answered(r)' => resp'[r].status \in {200, 500}
       /\ DeleteArrives(r) /\ (\E q \in Reqs : Deleted(q) /\ h[q].id = h'[r].id) =>
            /\ store' = store
            /\ files' = files
            /\ h'[r].pc # "deleting"
            /\ h'[r].cause # "store" => resp'[r] = Err(404, "Download not found")]_vars

C12_Witness ==
  \E r, q \in Reqs :
    /\ variant = "p000"
    /\ Deleted(q)
    /\ h[r].op = "delete" /\ h[r].id = h[q].id /\ resp[r].status = 404

\* C13 (as stated): a DELETE of an existing record removes the file before
\* the record (the step that ends the file removal leaves the store as it
\* was), and the step in which the record removal fails answers the caller
\* with a non-2xx status, the record still stored and its file gone.
C13_PartialFailureReported ==
  [][\A r \in Reqs :
       /\ DeleteArrives(r) /\ h'[r].pc = "deleting" =>
            /\ store' = store
            /\ \A i \in DOMAIN store : store[i].id = h'[r].id => store[i].filePath \notin DOMAIN files'
       /\ h[r].pc = "deleting" /\ h'[r].cause = "remove" =>
            /\ resp'[r].status >= 400
            /\ store' = store
            /\ \A i \in DOMAIN store : store[i].id = h[r].id => store[i].filePath \notin DOMAIN files']_vars

\* C14 (as stated): whatever fails while a request is handled, the server
\* process goes on running.
C14_ProcessSurvives == alive

\* The request hit a failure and its handler is over.
Failed(r) == h[r].pc \in {"done", "hung"} /\ h[r].cause # ""

\* C15 (as stated): a request that hit a failure is answered with a non-2xx
\* status and an error payload, and with no success body.
C15_FailuresAnsweredNon2xx ==
  \A r \in Reqs :
    Failed(r) =>
      /\ resp[r].status >= 400
      /\ resp[r].error # ""
      /\ resp[r].body = <<>>

\* This step is the arrival of a list request as r, answered 200.
ListAnswers(r) == h[r].pc = "idle" /\ h'[r].op = "list" /\ resp'[r].status = 200

\* What the list endpoint shows of a record: everything in src/app.js,
\* everything but filePath in the other revisions.
Shown(doc) == IF variant = "app" THEN doc ELSE SelectNoPath(doc)

\* C16: a list answer holds every record the store holds at that moment,
\* once each and nothing else, each earlier element's downloadDate at least
\* the later one's, and no record that a DELETE answered Success removed.
C16_ListNewestFirst ==
  [][\A r \in Reqs :
       ListAnswers(r) =>
         LET body == resp'[r].body IN
         /\ Len(body) = Len(store)
         /\ \A i \in DOMAIN store : \E j \in DOMAIN body : body[j] = Shown(store[i])
         /\ \A i, j \in DOMAIN body : i # j => body[i].id # body[j].id
         /\ \A i, j \in DOMAIN body : i < j => body[i].downloadDate >= body[j].downloadDate
         /\ \A q \in Reqs, j \in DOMAIN body : Deleted(q) => body[j].id # h[q].id]_vars

\* A list answer of all the records whose order is not the store's.
C16_Witness ==
  \E r \in Reqs :
    /\ h[r].op = "list" /\ Succeeded(r) /\ Len(resp[r].body) = NumOld
    /\ Len(store) = NumOld
    /\ resp[r].body[1].id = store[NumOld].id
    /\ resp[r].body[1].downloadDate > resp[r].body[NumOld].downloadDate

\* This step is the arrival of a GET /download/:id as request r, and the
\* store answered the lookup.
GetAnswers(r) == h[r].pc = "idle" /\ h'[r].op = "get" /\ h'[r].cause # "store"

\* C17: a GET /download/:id whose id no stored record has is answered 404
\* 'Download not found', one whose id a record has is answered 200 with that
\* record; either way the store, the download directory and the process are
\* left as they were.
C17_GetByIdOrNotFound ==
  [][\A r \in Reqs :
       /\ h[r].pc = "idle" /\ h'[r].op = "get" => store' = store /\ files' = files
       /\ GetAnswers(r) =>
            /\ alive' = alive
            /\ IF \E i \in DOMAIN store : store[i].id = h'[r].id
               THEN /\ resp'[r].status = 200
                    /\ Len(resp'[r].body) = 1
                    /\ resp'[r].body[1].id = h'[r].id
                    /\ \E i \in DOMAIN store : store[i] = resp'[r].body[1]
               ELSE resp'[r] = Err(404, "Download not found")]_vars

C17_Witness ==
  \E r, q \in Reqs :
    /\ variant = "p000"
    /\ h[r].op = "get" /\ resp[r].status = 404
    /\ h[q].op = "get" /\ Succeeded(q) /\ resp[q].body[1].id = h[q].id

\* C18 (as stated): no POST /download of a known kind fails because the
\* video's details carry no title: the handler goes on past the metadata, and
\* the document it builds after the download passes the schema.
C18_MetadataBestEffort ==
  \A r \in Reqs :
    Posted(r) /\ h[r].type \in FileTypeEnum /\ TitleOf(h[r].url) = Undefined =>
      /\ h[r].cause # "metadata"
      /\ h[r].pc = "saving" => Validates(h[r].doc)

\* C19 (as stated): the document a handler builds after a successful
\* download carries the size the destination file has on disk at that moment,
\* a file name ending in mp3 for an audio request, and the title the
\* downloader's metadata reports for the url.
C19_RecordDescribesDownload ==
  [][\A r \in Reqs :
       h[r].pc # "saving" /\ h'[r].pc = "saving" =>
         LET doc == h'[r].doc IN
         /\ doc.filePath \in DOMAIN files' /\ doc.fileSize = files'[doc.filePath]
         /\ doc.fileType = "audio" => doc.fileName.ext = "mp3"
         /\ TitleOf(doc.url) # Undefined => doc.title = TitleOf(doc.url)]_vars

\* C20 (as stated): two successful POST /download requests for different
\* urls have each their own destination file, and the record of each names
\* that file and carries the size of the complete download of its own url.
C20_DifferentUrlsDoNotInterfere ==
  \A r, q \in SuccessfulPosts :
    r # q /\ h[r].url # h[q].url =>
      /\ h[r].fileName # h[q].fileName
      /\ \A i \in DOMAIN store :
           store[i].id = r =>
             /\ store[i].fileName = h[r].fileName
             /\ store[i].fileSize = SizeOf(h[r].url)

\* C21 (as stated): no request has a response sent on it more than once.
C21_AtMostOneResponse == \A r \in Reqs : h[r].sends <= 1

\* C22 (as stated): every request that arrived is eventually answered.
C22_EveryRequestAnswered ==
  \A r \in Reqs : (h[r].pc # "idle") ~> Answered(r)

\* No request is being handled.
Quiescent == \A r \in Reqs : h[r].pc \in {"idle", "done"}

\* C23 (as stated): with no failure, whenever no request is being handled
\* every stored record's filePath is a file of the download directory and no
\* two stored records have the same filePath.
C23_RecordsMatchFiles ==
  Quiescent =>
    /\ \A i \in DOMAIN store : Exists(store[i].filePath)
    /\ \A i, j \in DOMAIN store : i # j => store[i].filePath # store[j].filePath

\* C24 (as stated): of two DELETE /download/:id requests for the same id, at
\* most one is answered Success.
C24_OneDeleteSucceeds ==
  \A r, q \in Reqs :
    r # q /\ Deleted(r) /\ Deleted(q) => h[r].id # h[q].id

====
